---- MODULE Spec2Model ----
(***************************************************************************)
(* Dual-band matching network synthesis (core/matcher.py).                 *)
(*                                                                         *)
(* The program computes with IEEE-754 binary floating point.  TLC has      *)
(* 32-bit integers only, so a floating-point number is modelled as a       *)
(* record [k, s, m, e]:                                                    *)
(*    k = "f"  finite, value (-1)^s * m * 2^e, with m = 0 (signed zero)    *)
(*             or 2^23 <= m < 2^24 (a normalised 24-bit significand),      *)
(*    k = "i"  infinity of sign s,                                         *)
(*    k = "n"  NaN.                                                        *)
(* The significand is 24 bits wide (binary32's) instead of binary64's 53;  *)
(* the exponent is unbounded.  Signed zeros, infinities and NaN follow     *)
(* IEEE-754, since the program relies on numpy's non-trapping arithmetic.  *)
(*                                                                         *)
(* TLC evaluates the arguments of an operator on demand, and once per use  *)
(* where it keeps no cache (inside ENABLED).  Let(e, LAMBDA x : b) is      *)
(* "b where x = e", with e evaluated exactly once, before b; the operators *)
(* below bind with it every value they use more than once.  The arithmetic *)
(* writes the same binding in place, as the element of a singleton set,    *)
(* CHOOSE r \in { b : x \in {e} } : TRUE, which nests less deeply in TLC.  *)
(***************************************************************************)
EXTENDS Integers, Sequences, FiniteSets

Let(e, F(_)) == CHOOSE r \in { F(x) : x \in {e} } : TRUE
Let2(e1, e2, F(_, _)) == CHOOSE r \in { F(x, y) : x \in {e1}, y \in {e2} } : TRUE

----------------------------------------------------------------------------
(* Floating-point numbers                                                  *)

P2 == [i \in 0..30 |-> 2^i]

Fin(s, m, e) == [k |-> "f", s |-> s, m |-> m, e |-> e]
Zero(s) == [k |-> "f", s |-> s, m |-> 0, e |-> 0]
Inf(s) == [k |-> "i", s |-> s, m |-> 0, e |-> 0]
NaN == [k |-> "n", s |-> 0, m |-> 0, e |-> 0]

IsNaN(x) == x.k = "n"
IsInf(x) == x.k = "i"
IsFin(x) == x.k = "f"
IsZero(x) == x.k = "f" /\ x.m = 0

\* number of binary digits of n, 1 <= n < 2^31
BitLen(n) == IF n >= P2[30] THEN 31 ELSE CHOOSE b \in 1..30 : P2[b - 1] <= n /\ n < P2[b]

\* round half to even: q rounds up when the remainder r exceeds the half h
HalfUp(q, r, h) == r > h \/ (r = h /\ q % 2 = 1)

RoundTo(s, q, up, e) ==
  IF ~up THEN Fin(s, q, e)
  ELSE IF q + 1 = 16777216 THEN Fin(s, 8388608, e + 1)
  ELSE Fin(s, q + 1, e)

NormB(s, n, e, b) ==
  IF b <= 24 THEN Fin(s, n * P2[24 - b], e + b - 24)
  ELSE RoundTo(s, n \div P2[b - 24],
               HalfUp(n \div P2[b - 24], n % P2[b - 24], P2[b - 25]), e + b - 24)

\* The float nearest to n * 2^e (round half to even), for 0 <= n < 2^31;
\* an exact zero result is +0.
NormN(s, n, e) ==
  IF n = 0 THEN Zero(0) ELSE CHOOSE r \in { NormB(s, n, e, b) : b \in {BitLen(n)} } : TRUE
Norm(s, n0, e) == CHOOSE r \in { NormN(s, n, e) : n \in {n0} } : TRUE

FromInt(n) == IF n < 0 THEN Norm(1, -n, 0) ELSE Norm(0, n, 0)

FNeg(x) == [x EXCEPT !.s = 1 - @]
FAbs(x) == [x EXCEPT !.s = 0]

\* |x| >= |y| for finite nonzero x, y
MagGe(x, y) == x.e > y.e \/ (x.e = y.e /\ x.m >= y.m)

\* big + sml for finite nonzero operands with |big| >= |sml|
AddOrd(big, sml) ==
  IF big.e - sml.e > 26 THEN big
  ELSE Norm(big.s,
            IF big.s = sml.s THEN big.m * 64 + (sml.m * 64) \div P2[big.e - sml.e]
                             ELSE big.m * 64 - (sml.m * 64) \div P2[big.e - sml.e],
            big.e - 6)

AddFin(x, y) == IF MagGe(x, y) THEN AddOrd(x, y) ELSE AddOrd(y, x)

AddVal(x, y) ==
  IF IsNaN(x) \/ IsNaN(y) THEN NaN
  ELSE IF IsInf(x) THEN (IF IsInf(y) /\ y.s # x.s THEN NaN ELSE x)
  ELSE IF IsInf(y) THEN y
  ELSE IF x.m = 0 THEN (IF y.m = 0 THEN Zero(IF x.s = 1 /\ y.s = 1 THEN 1 ELSE 0) ELSE y)
  ELSE IF y.m = 0 THEN x
  ELSE AddFin(x, y)

FAdd(a, b) == CHOOSE r \in { AddVal(x, y) : x \in {a}, y \in {b} } : TRUE

FSub(x, y) == FAdd(x, FNeg(y))

SignXor(x, y) == IF x.s = y.s THEN 0 ELSE 1

\* the upper 26 bits of the 48-bit product, from 12-bit limbs
MulFin(x, y) ==
  Norm(SignXor(x, y),
       (x.m \div 4096) * (y.m \div 4096) * 4
         + ((x.m \div 4096) * (y.m % 4096) + (x.m % 4096) * (y.m \div 4096)
            + ((x.m % 4096) * (y.m % 4096)) \div 4096) \div 1024,
       x.e + y.e + 22)

MulVal(x, y) ==
  IF IsNaN(x) \/ IsNaN(y) THEN NaN
  ELSE IF IsInf(x) \/ IsInf(y)
       THEN (IF IsZero(x) \/ IsZero(y) THEN NaN ELSE Inf(SignXor(x, y)))
  ELSE IF x.m = 0 \/ y.m = 0 THEN Zero(SignXor(x, y))
  ELSE MulFin(x, y)

FMul(a, b) == CHOOSE r \in { MulVal(x, y) : x \in {a}, y \in {b} } : TRUE

\* long division: the quotient q of r * 2^(7 * n) by d, n digits of 7 bits
RECURSIVE LongDiv(_, _, _, _)
LongDiv(q, r, d, n) ==
  IF n = 0 THEN q ELSE LongDiv(q * 128 + (r * 128) \div d, (r * 128) % d, d, n - 1)

DivFin(x, y) ==
  Norm(SignXor(x, y), LongDiv(x.m \div y.m, x.m % y.m, y.m, 4), x.e - y.e - 28)

DivVal(x, y) ==
  IF IsNaN(x) \/ IsNaN(y) THEN NaN
  ELSE IF IsInf(x) THEN (IF IsInf(y) THEN NaN ELSE Inf(SignXor(x, y)))
  ELSE IF IsInf(y) THEN Zero(SignXor(x, y))
  ELSE IF y.m = 0 THEN (IF x.m = 0 THEN NaN ELSE Inf(SignXor(x, y)))
  ELSE IF x.m = 0 THEN Zero(SignXor(x, y))
  ELSE DivFin(x, y)

FDiv(a, b) == CHOOSE r \in { DivVal(x, y) : x \in {a}, y \in {b} } : TRUE

\* |x| < |y| for operands that are not NaN
MagLt(x, y) ==
  IF IsInf(x) THEN FALSE
  ELSE IF IsInf(y) THEN TRUE
  ELSE IF y.m = 0 THEN FALSE
  ELSE IF x.m = 0 THEN TRUE
  ELSE x.e < y.e \/ (x.e = y.e /\ x.m < y.m)

\* Comparisons: every comparison with a NaN is false, and -0 = +0.
LtVal(x, y) ==
  /\ ~IsNaN(x) /\ ~IsNaN(y)
  /\ ~(IsZero(x) /\ IsZero(y))
  /\ IF x.s # y.s THEN x.s = 1
     ELSE IF x.s = 0 THEN MagLt(x, y) ELSE MagLt(y, x)
EqVal(x, y) ==
  /\ ~IsNaN(x) /\ ~IsNaN(y)
  /\ ((IsZero(x) /\ IsZero(y)) \/ x = y)

FLt(a, b) == CHOOSE r \in { LtVal(x, y) : x \in {a}, y \in {b} } : TRUE
FGt(a, b) == FLt(b, a)
FEq(a, b) == CHOOSE r \in { EqVal(x, y) : x \in {a}, y \in {b} } : TRUE
FLe(a, b) == CHOOSE r \in { LtVal(x, y) \/ EqVal(x, y) : x \in {a}, y \in {b} } : TRUE
FGe(x, y) == FLe(y, x)
FNe(x, y) == ~FEq(x, y)

----------------------------------------------------------------------------
(* Elementary functions (numpy's sqrt, sin, cos, tan, arctan), each        *)
(* accurate to about one unit in the last place of the 24-bit significand. *)

RECURSIVE ISqrtIter(_, _)
ISqrtIter(n, s) ==
  CHOOSE r \in { IF t >= s THEN s ELSE ISqrtIter(n, t) : t \in {(s + n \div s) \div 2} } : TRUE

\* floor(sqrt(n)) for 0 <= n < 2^31
ISqrt(n) == IF n = 0 THEN 0 ELSE ISqrtIter(n, 65536)

Half == Fin(0, 8388608, -24)
One == Fin(0, 8388608, -23)

\* one Newton step from the estimate y0
SqrtStep(x, est) == CHOOSE r \in { FMul(Half, FAdd(y0, FDiv(x, y0))) : y0 \in {est} } : TRUE

\* the estimate: the integer root of the significand scaled to an even exponent
SqrtEst(x, sh) == Norm(0, ISqrt(x.m * P2[sh]), (x.e - sh) \div 2)

\* np.sqrt: NaN for a negative argument, sqrt(-0) = -0.
SqrtVal(x) ==
  IF IsNaN(x) THEN NaN
  ELSE IF IsZero(x) THEN x
  ELSE IF x.s = 1 THEN NaN
  ELSE IF IsInf(x) THEN x
  ELSE SqrtStep(x, SqrtEst(x, IF x.e % 2 = 0 THEN 6 ELSE 7))

FSqrt(a) == CHOOSE r \in { SqrtVal(x) : x \in {a} } : TRUE

Pi == Fin(0, 13176795, -22)
PiO2 == Fin(0, 13176795, -23)
PiO4 == Fin(0, 13176795, -24)
TwoOPi == Fin(0, 10680707, -24)
\* pi/2 in three parts, the first two 16 bits wide (exact multiples for the reduction)
PIO2_1 == Fin(0, 13176576, -23)
PIO2_2 == Fin(0, 14328320, -39)
PIO2_3 == Fin(0, 8758024, -57)

\* nearest integer to the magnitude of a finite float below 2^24
RoundMag(v) ==
  IF v.e >= 0 THEN v.m * P2[v.e]
  ELSE IF v.e < -25 THEN 0
  ELSE (v.m + P2[-v.e - 1]) \div P2[-v.e]

RoundVal(v) == IF v.m = 0 THEN 0 ELSE IF v.s = 1 THEN -RoundMag(v) ELSE RoundMag(v)

RoundInt(a) == CHOOSE r \in { RoundVal(v) : v \in {a} } : TRUE

\* x - fn * pi/2, with pi/2 in three parts
ReduceBy(x, a) ==
  CHOOSE r \in { FSub(FSub(FSub(x, FMul(fn, PIO2_1)), FMul(fn, PIO2_2)), FMul(fn, PIO2_3)) :
                  fn \in {a} } : TRUE

ReduceN(x, n) == [n |-> n % 4, r |-> IF n = 0 THEN x ELSE ReduceBy(x, FromInt(n))]

\* argument reduction x = n*(pi/2) + r, |r| <= pi/4, of a float x
Reduce(x) == CHOOSE r \in { ReduceN(x, n) : n \in {RoundInt(FMul(x, TwoOPi))} } : TRUE

\* one step of Horner's rule: c + v * p
Step(c, v, p) == FAdd(c, FMul(v, p))

\* r * (1 - z/3! + z^2/5! - ... - z^5/11!), by Horner's rule
SinP(x, v) ==
  CHOOSE r \in
    { FMul(x, Step(One, v, p1)) : p1 \in
      { Step(Fin(1, 11184811, -26), v, p2) : p2 \in
      { Step(Fin(0, 8947849, -30), v, p3) : p3 \in
      { Step(Fin(1, 13634817, -36), v, p4) : p4 \in
      {Step(Fin(0, 12119837, -42), v, Fin(1, 14103083, -49))} } } } } : TRUE

\* 1 - z/2! + z^2/4! - ... + z^6/12!, by Horner's rule
CosP(v) ==
  CHOOSE r \in
    { Step(One, v, p1) : p1 \in
      { Step(Fin(1, 8388608, -24), v, p2) : p2 \in
      { Step(Fin(0, 11184811, -28), v, p3) : p3 \in
      { Step(Fin(1, 11930465, -33), v, p4) : p4 \in
      { Step(Fin(0, 13634817, -39), v, p5) : p5 \in
      {Step(Fin(1, 9695870, -45), v, Fin(0, 9402055, -52))} } } } } } : TRUE

\* sine and cosine on [-pi/4, pi/4]
SinK(x) == CHOOSE r \in { SinP(x, z) : z \in {FMul(x, x)} } : TRUE
CosK(x) == CHOOSE r \in { CosP(z) : z \in {FMul(x, x)} } : TRUE

\* Angles in this program stay below 2^20 rad; sin/cos/tan of an infinity is NaN.
TrigOk(x) == IsFin(x) /\ (x.m = 0 \/ x.e < -3)

\* the sine of n*(pi/2) + r from sn = sin r and cs = cos r
SinQ(n, sn, cs) ==
  CASE n = 0 -> sn
    [] n = 1 -> cs
    [] n = 2 -> FNeg(sn)
    [] OTHER -> FNeg(cs)

TanQ(n, sn, cs) == IF n % 2 = 0 THEN FDiv(sn, cs) ELSE FNeg(FDiv(cs, sn))

\* [n, r] of Reduce, or n = -1 for an argument with no sine
Reduced(x) == IF TrigOk(x) THEN Reduce(x) ELSE [n |-> -1, r |-> NaN]

SinR(p) == IF p.n < 0 THEN NaN ELSE SinQ(p.n, SinK(p.r), CosK(p.r))
CosR(p) == IF p.n < 0 THEN NaN ELSE SinQ((p.n + 1) % 4, SinK(p.r), CosK(p.r))
TanR(p) == IF p.n < 0 THEN NaN ELSE TanQ(p.n, SinK(p.r), CosK(p.r))

FSin(a) == CHOOSE r \in { SinR(p) : p \in { Reduced(x) : x \in {a} } } : TRUE
FCos(a) == CHOOSE r \in { CosR(p) : p \in { Reduced(x) : x \in {a} } } : TRUE
FTan(a) == CHOOSE r \in { TanR(p) : p \in { Reduced(x) : x \in {a} } } : TRUE

\* z * (1 - w/3 + w^2/5 - ... + w^10/21), by Horner's rule
AtanP(z, v) ==
  CHOOSE r \in
    { FMul(z, Step(One, v, p1)) : p1 \in
      { Step(Fin(1, 11184811, -25), v, p2) : p2 \in
      { Step(Fin(0, 13421773, -26), v, p3) : p3 \in
      { Step(Fin(1, 9586981, -26), v, p4) : p4 \in
      { Step(Fin(0, 14913081, -27), v, p5) : p5 \in
      { Step(Fin(1, 12201612, -27), v, p6) : p6 \in
      { Step(Fin(0, 10324441, -27), v, p7) : p7 \in
      { Step(Fin(1, 8947849, -27), v, p8) : p8 \in
      { Step(Fin(0, 15790321, -28), v, p9) : p9 \in
      {Step(Fin(1, 14128182, -28), v, Fin(0, 12782641, -28))} } } } } } } } } } : TRUE

\* arctan z for |z| <= tan(pi/8)
AtanK(z) == CHOOSE r \in { AtanP(z, w) : w \in {FMul(z, z)} } : TRUE

\* the argument of AtanK and the multiple of pi/4 to add, for 0 <= a <= 1
AtanArg(a) ==
  IF FGt(a, Fin(0, 13898701, -25))
  THEN [z |-> FDiv(FSub(a, One), FAdd(a, One)), q |-> PiO4]
  ELSE [z |-> a, q |-> Zero(0)]

\* arctan of a finite a, 0 < a <= 1
AtanUnit(a0) ==
  CHOOSE r \in { FAdd(p.q, AtanK(p.z)) : p \in { AtanArg(a) : a \in {a0} } } : TRUE

\* arctan of a finite a > 0
AtanPos(a) == IF FGt(a, One) THEN FSub(PiO2, AtanUnit(FDiv(One, a))) ELSE AtanUnit(a)

WithSign(t, s) == [t EXCEPT !.s = s]

\* np.arctan, with values in [-pi/2, pi/2]
AtanVal(x) ==
  IF IsNaN(x) THEN NaN
  ELSE IF IsInf(x) THEN WithSign(PiO2, x.s)
  ELSE IF IsZero(x) THEN x
  ELSE WithSign(AtanPos(FAbs(x)), x.s)

FAtan(a) == CHOOSE r \in { AtanVal(x) : x \in {a} } : TRUE

----------------------------------------------------------------------------
(* Complex numbers (numpy complex128 arithmetic)                           *)

Cx(re, im) == [re |-> re, im |-> im]
\* a real operand is converted to a complex one with imaginary part +0
CR(x) == Cx(x, Zero(0))
CJ == Cx(Zero(0), One)

AddCx(x, y) == Cx(FAdd(x.re, y.re), FAdd(x.im, y.im))
SubCx(x, y) == Cx(FSub(x.re, y.re), FSub(x.im, y.im))
MulCx(x, y) ==
  Cx(FSub(FMul(x.re, y.re), FMul(x.im, y.im)), FAdd(FMul(x.re, y.im), FMul(x.im, y.re)))

CAdd(a, b) == CHOOSE r \in { AddCx(x, y) : x \in {a}, y \in {b} } : TRUE
CSub(a, b) == CHOOSE r \in { SubCx(x, y) : x \in {a}, y \in {b} } : TRUE
CMul(a, b) == CHOOSE r \in { MulCx(x, y) : x \in {a}, y \in {b} } : TRUE

\* Smith's algorithm for |b.re| >= |b.im|, rat = b.im / b.re
SmithRe(a, b, rat) ==
  CHOOSE q \in { Cx(FMul(FAdd(a.re, FMul(a.im, rat)), scl),
                    FMul(FSub(a.im, FMul(a.re, rat)), scl)) :
                  scl \in {FDiv(One, FAdd(b.re, FMul(b.im, rat)))} } : TRUE

\* Smith's algorithm for |b.re| < |b.im|, rat = b.re / b.im
SmithIm(a, b, rat) ==
  CHOOSE q \in { Cx(FMul(FAdd(FMul(a.re, rat), a.im), scl),
                    FMul(FSub(FMul(a.im, rat), a.re), scl)) :
                  scl \in {FDiv(One, FAdd(b.im, FMul(b.re, rat)))} } : TRUE

\* numpy's complex division (Smith's algorithm; x/0 gives inf or nan, no exception)
DivCx(a, b) ==
  IF FGe(FAbs(b.re), FAbs(b.im))
  THEN IF IsZero(b.re) /\ IsZero(b.im)
       THEN Cx(FDiv(a.re, FAbs(b.re)), FDiv(a.im, FAbs(b.im)))
       ELSE CHOOSE r \in { SmithRe(a, b, rat) : rat \in {FDiv(b.im, b.re)} } : TRUE
  ELSE CHOOSE r \in { SmithIm(a, b, rat) : rat \in {FDiv(b.re, b.im)} } : TRUE

CDiv(a, b) == CHOOSE r \in { DivCx(x, y) : x \in {a}, y \in {b} } : TRUE

\* abs of a complex number (hypot: an infinite part gives inf even beside a NaN)
AbsCx(x) ==
  IF IsInf(x.re) \/ IsInf(x.im) THEN Inf(0)
  ELSE FSqrt(FAdd(FMul(x.re, x.re), FMul(x.im, x.im)))

CAbs(a) == CHOOSE r \in { AbsCx(x) : x \in {a} } : TRUE

----------------------------------------------------------------------------
(* Literals of the program                                                 *)

\* the float nearest to the decimal n/d
Dec(n, d) == FDiv(FromInt(n), FromInt(d))

Tol6 == Dec(1, 1000000)              \* 1e-6
Tol9 == Dec(1, 1000000000)           \* 1e-9
Dummy == Dec(2, 100)                 \* 0.02
Big == FromInt(1000000000)           \* 1e9
AuxLineZ == FromInt(50)              \* 50.0, the scan's auxiliary-line impedance
Deg2Rad == FDiv(Pi, FromInt(180))    \* np.radians multiplies by pi/180
Rad2Deg == FDiv(FromInt(180), Pi)    \* np.degrees multiplies by 180/pi

\* Python's None for an attribute that holds a number, or a complex number
None == [k |-> "none", s |-> 0, m |-> 0, e |-> 0]
CNone == Cx(None, None)
\* Python truth of "x if x else ...": None and 0 are false, NaN is true
Truthy(x) == x.k # "none" /\ ~IsZero(x)

----------------------------------------------------------------------------
(* class DualBandMatchingDesign                                            *)

DesignInit(f1, f2, Z_L1, Z_L2, Z0) ==
  [f1 |-> f1, f2 |-> f2, Z_L1_orig |-> Z_L1, Z_L2_orig |-> Z_L2,
   Z_L1 |-> Z_L1, Z_L2 |-> Z_L2, Z0 |-> Z0,
   p1 |-> FDiv(f1, FAdd(f1, f2)), p2 |-> FDiv(f2, FAdd(f1, f2)),
   aux_line_Z |-> None, aux_line_theta |-> None, Z1 |-> None, theta1 |-> None,
   region |-> "None", aux_stub_type |-> "None", aux_stub_Y2 |-> None,
   Z_T1 |-> None, theta_T1 |-> None, Z_m |-> None, stub_type |-> "None",
   Z_n |-> None, Y_n |-> None, Z_in1 |-> CNone, Z_in_matched |-> CNone]

\* Z_c * (Z_L + 1j*Z_c*t) / (Z_c + 1j*Z_L*t), the lossless-line transformation
LineTransform(Z_L, Z_c, tan) ==
  Let(tan, LAMBDA t :
    CDiv(CMul(CR(Z_c), CAdd(Z_L, CMul(CMul(CJ, CR(Z_c)), CR(t)))),
         CAdd(CR(Z_c), CMul(CMul(CJ, Z_L), CR(t)))))

apply_aux_line(d, Z_p, theta_deg) ==
  Let(FMul(FromInt(theta_deg), Deg2Rad), LAMBDA theta_rad :
    [d EXCEPT !.Z_L1 = LineTransform(d.Z_L1_orig, Z_p, FTan(FMul(theta_rad, d.p1))),
              !.Z_L2 = LineTransform(d.Z_L2_orig, Z_p, FTan(FMul(theta_rad, d.p2))),
              !.aux_line_Z = Z_p,
              !.aux_line_theta = theta_rad])

\* "if abs(den) < 1e-9: pi/2, else: arctan(num / den)"
AtanOr(num, denominator) ==
  Let(denominator, LAMBDA den :
    IF FLt(FAbs(den), Tol9) THEN PiO2 ELSE FAtan(FDiv(num, den)))

\* inside_sqrt = term1 + term2
inside_sqrt(R_L1, X_L1, R_L2, X_L2) ==
  FAdd(FAdd(FMul(R_L1, R_L2), FMul(X_L1, X_L2)),
       FMul(FDiv(FAdd(X_L1, X_L2), FSub(R_L2, R_L1)),
            FSub(FMul(R_L1, X_L2), FMul(R_L2, X_L1))))

\* theta1_rad before the correction of its sign
theta1_atan(Z1, R_L1, X_L1, R_L2, X_L2) ==
  AtanOr(FMul(Z1, FSub(R_L2, R_L1)), FSub(FMul(R_L2, X_L1), FMul(R_L1, X_L2)))

\* Variant of theta1_of without the correction of a negative angle.
theta1_uncorrected(theta1_rad, additional_pi) ==
  FAdd(theta1_rad, FMul(FromInt(additional_pi), Pi))

\* Variant of theta1_of that checks the sign after the branch offset is added.
theta1_late_correction(theta1_rad, additional_pi) ==
  Let(theta1_uncorrected(theta1_rad, additional_pi), LAMBDA t :
    IF FLt(t, Zero(0)) THEN FAdd(t, Pi) ELSE t)

\* "if theta1_rad < 0: theta1_rad += pi; self.theta1 = theta1_rad + additional_pi * pi"
theta1_of(theta1_rad, additional_pi) ==
  Let(theta1_rad, LAMBDA t :
    FAdd(IF FLt(t, Zero(0)) THEN FAdd(t, Pi) ELSE t, FMul(FromInt(additional_pi), Pi)))

\* Z_in1 for the next stage
ConjLine(self) ==
  Let(self, LAMBDA d :
    [d EXCEPT !.Z_in1 = LineTransform(d.Z_L1, d.Z1, FTan(FMul(d.theta1, d.p1)))])

\* self.Z1 = np.sqrt(inside_sqrt) and what follows it
ConjSet(d, root, additional_pi) ==
  Let(root, LAMBDA Z1 :
    ConjLine([d EXCEPT !.Z1 = Z1,
                       !.theta1 = theta1_of(theta1_atan(Z1, d.Z_L1.re, d.Z_L1.im,
                                                        d.Z_L2.re, d.Z_L2.im),
                                            additional_pi)]))

ConjRoot(d, radicand, additional_pi) ==
  Let(radicand, LAMBDA inside :
    IF FLt(inside, Zero(0)) THEN [ok |-> FALSE, d |-> d]
    ELSE [ok |-> TRUE, d |-> ConjSet(d, FSqrt(inside), additional_pi)])

\* Variant of calculate_conjugate_transform without the guard on equal resistances.
conjugate_transform_unguarded(d, additional_pi) ==
  ConjRoot(d, inside_sqrt(d.Z_L1.re, d.Z_L1.im, d.Z_L2.re, d.Z_L2.im), additional_pi)

\* Stage 1.  The result is [ok, d]: the returned flag and the design afterwards.
calculate_conjugate_transform(d, additional_pi) ==
  IF FLt(FAbs(FSub(d.Z_L2.re, d.Z_L1.re)), Tol6) THEN [ok |-> FALSE, d |-> d]
  ELSE ConjRoot(d, inside_sqrt(d.Z_L1.re, d.Z_L1.im, d.Z_L2.re, d.Z_L2.im), additional_pi)

RegionOf(z) ==
  Let(z, LAMBDA z_norm :
    IF FGt(z_norm.re, One) THEN "a"
    ELSE IF FGt(CDiv(CR(One), z_norm).re, One) THEN "b"
    ELSE "c")

\* Smith-chart region of Z_in1: 'a' if r > 1, else 'b' if g > 1, else 'c'
Classify(Z_in1, Z0) == RegionOf(CDiv(Z_in1, CR(Z0)))

\* "B / tan_theta if abs(tan_theta) > 1e-9 else 0", the open-stub admittance
StubOpen(B, tan) ==
  Let(tan, LAMBDA t : IF FGt(FAbs(t), Tol9) THEN FDiv(B, t) ELSE Zero(0))

\* "-B * tan_theta", the short-stub admittance
StubShort(B, tan) == FMul(FNeg(B), tan)

\* tan(p1 * pi), the stub's electrical length at f1
tan_theta(d) == FTan(FMul(d.p1, Pi))

Y_in1(d) == CDiv(CR(One), d.Z_in1)
target_B_stub(d) == FNeg(Y_in1(d).im)
Y2_open(d) == StubOpen(target_B_stub(d), tan_theta(d))
Y2_short(d) == StubShort(target_B_stub(d), tan_theta(d))

\* the stub chosen from the two attempts: its type, admittance and Y_stub
AuxStubChoice(Y2_o, Y2_s, tan) ==
  Let2(Y2_o, Y2_s, LAMBDA open, short :
    IF FGt(open, Zero(0))
    THEN [type |-> "Open", Y2 |-> open, Y_stub |-> CMul(CMul(CJ, CR(open)), CR(tan))]
    ELSE IF FGt(short, Zero(0))
    THEN [type |-> "Short", Y2 |-> short,
          Y_stub |-> CDiv(CMul(Cx(Zero(1), FNeg(One)), CR(short)), CR(tan))]
    ELSE [type |-> "Open", Y2 |-> Dummy, Y_stub |-> CR(Zero(0))])

AuxStubApply(d, choice) ==
  Let(choice, LAMBDA c :
    [d EXCEPT !.aux_stub_type = c.type,
              !.aux_stub_Y2 = c.Y2,
              !.Z_in_matched = CDiv(CR(One), CAdd(Y_in1(d), c.Y_stub)),
              !.region = "a"])

\* Case [c]: a parallel stub at the input of TL1
add_auxiliary_stub(d) ==
  AuxStubApply(d, AuxStubChoice(Y2_open(d), Y2_short(d), tan_theta(d)))

\* Variant of AdjustFor that remediates region c whatever allow_aux_stub says.
AdjustAlways(self, allow_aux_stub) ==
  Let(self, LAMBDA d : IF d.region = "c" THEN add_auxiliary_stub(d) ELSE d)

\* "if allow_aux_stub: self._add_auxiliary_stub()" in region c
AdjustFor(self, allow_aux_stub) ==
  Let(self, LAMBDA d :
    IF d.region = "c" /\ allow_aux_stub THEN add_auxiliary_stub(d) ELSE d)

\* Stage 2
check_region_and_adjust(d, allow_aux_stub) ==
  AdjustFor([d EXCEPT !.Z_in_matched = d.Z_in1, !.region = Classify(d.Z_in1, d.Z0)],
            allow_aux_stub)

term_sqrt(R_in1, X_in1, Z_S) ==
  FAdd(FDiv(FMul(FMul(X_in1, X_in1), Z_S), FSub(R_in1, Z_S)), FMul(R_in1, Z_S))

\* "if theta_T1_rad <= 0: theta_T1_rad += pi"
theta_T1_of(theta_T1_rad) ==
  Let(theta_T1_rad, LAMBDA t : IF FLe(t, Zero(0)) THEN FAdd(t, Pi) ELSE t)

\* self.Z_T1 = np.sqrt(term_sqrt) and what follows it
MatchSet(d, root) ==
  Let(root, LAMBDA Z_T1 :
    [d EXCEPT !.Z_T1 = Z_T1,
              !.theta_T1 = theta_T1_of(AtanOr(FMul(Z_T1, FSub(d.Z0, d.Z_in_matched.re)),
                                              FMul(d.Z_in_matched.im, d.Z0)))])

MatchRoot(d, radicand) ==
  Let(radicand, LAMBDA term :
    IF FLt(term, Zero(0)) THEN [ok |-> FALSE, d |-> d]
    ELSE [ok |-> TRUE, d |-> MatchSet(d, FSqrt(term))])

\* Stage 3.  The result is [ok, d].
calculate_matching_network(d) ==
  MatchRoot(d, term_sqrt(d.Z_in_matched.re, d.Z_in_matched.im, d.Z0))

\* self.Z_m
PiSeries(d) ==
  [d EXCEPT !.Z_m = FDiv(FMul(d.Z_T1, FSin(d.theta_T1)), FSin(FMul(d.p1, Pi)))]

B_n1(d) ==
  FDiv(FSub(FCos(FMul(d.p1, Pi)), FCos(d.theta_T1)), FMul(d.Z_m, FSin(FMul(d.p1, Pi))))

\* self.stub_type and self.Y_n from the two attempts
PiStub(d, Y_o, Y_s) ==
  Let2(Y_o, Y_s, LAMBDA Y_open, Y_short :
    IF FGt(Y_open, Zero(0)) THEN [d EXCEPT !.stub_type = "Open", !.Y_n = Y_open]
    ELSE IF FGt(Y_short, Zero(0)) THEN [d EXCEPT !.stub_type = "Short", !.Y_n = Y_short]
    ELSE [d EXCEPT !.stub_type = "Open",
                   !.Y_n = IF FNe(Y_open, Zero(0)) THEN Y_open ELSE Dummy])

\* self.Z_n = 1.0 / self.Y_n
PiStubZ(self) == Let(self, LAMBDA d : [d EXCEPT !.Z_n = FDiv(One, d.Y_n)])

\* the stub of the pi network, for a design with Z_m set
PiShunt(self) ==
  Let(self, LAMBDA d :
    Let2(B_n1(d), tan_theta(d), LAMBDA B, t :
      PiStubZ(PiStub(d, StubOpen(B, t), StubShort(B, t)))))

\* Stage 4
synthesize_pi_network(d) == PiShunt(PiSeries(d))

get_design_parameters(d) ==
  [f_design |-> FAdd(d.f1, d.f2),
   region |-> d.region,
   Z_aux |-> IF Truthy(d.aux_line_Z) THEN d.aux_line_Z ELSE Zero(0),
   theta_aux |-> IF Truthy(d.aux_line_theta) THEN FMul(d.aux_line_theta, Rad2Deg) ELSE Zero(0),
   Z1 |-> d.Z1,
   theta1 |-> FMul(d.theta1, Rad2Deg),
   Z_series |-> d.Z_m,
   Z_stub |-> d.Z_n,
   stub_type |-> d.stub_type,
   aux_stub_type |-> d.aux_stub_type,
   aux_stub_Z |-> IF Truthy(d.aux_stub_Y2) THEN FDiv(One, d.aux_stub_Y2) ELSE Zero(0)]

\* z_c * (z_l + z_c * t) / (z_c + z_l * t)
TlineAt(z_l, z_c, jt) ==
  Let(jt, LAMBDA t :
    CDiv(CMul(CR(z_c), CAdd(z_l, CMul(CR(z_c), t))), CAdd(CR(z_c), CMul(z_l, t))))

tline_input_z(z, z_c, theta) ==
  Let2(z, theta, LAMBDA z_l, theta_rad :
    IF FLt(FAbs(FCos(theta_rad)), Tol9)
    THEN IF FLt(CAbs(z_l), Tol9) THEN Cx(Big, Zero(0))
         ELSE CDiv(CR(FMul(z_c, z_c)), z_l)
    ELSE TlineAt(z_l, z_c, CMul(CJ, CR(FTan(theta_rad)))))

StubAt(y_c, t, is_open) ==
  IF is_open THEN CMul(CMul(CJ, CR(y_c)), CR(t))
  ELSE CDiv(CMul(Cx(Zero(1), FNeg(One)), CR(y_c)), CR(t))

stub_admittance(y_c, theta, is_open) ==
  Let(theta, LAMBDA theta_rad :
    IF FLt(FAbs(FCos(theta_rad)), Tol9)
    THEN (IF is_open THEN Cx(Zero(0), Big) ELSE CR(Zero(0)))
    ELSE IF FLt(FAbs(FSin(theta_rad)), Tol9)
    THEN (IF is_open THEN CR(Zero(0)) ELSE Cx(Zero(0), FNeg(Big)))
    ELSE StubAt(y_c, FTan(theta_rad), is_open))

\* 1.0 / (1.0/z + y)
Shunt(z, y) == CDiv(CR(One), CAdd(CDiv(CR(One), z), y))

\* 0. Aux Line
AfterAuxLine(d, scale, z) ==
  IF Truthy(d.aux_line_Z)
  THEN tline_input_z(z, d.aux_line_Z, FMul(d.aux_line_theta, scale))
  ELSE z

\* 1. TL1
AfterTL1(d, scale, z) == tline_input_z(z, d.Z1, FMul(d.theta1, scale))

\* 2. Aux Stub (Case c)
AfterAuxStub(d, scale, z) ==
  IF d.aux_stub_type # "None"
  THEN Shunt(z, stub_admittance(d.aux_stub_Y2, FMul(Pi, scale), d.aux_stub_type = "Open"))
  ELSE z

y_pi_stub(d, scale) == stub_admittance(d.Y_n, FMul(Pi, scale), d.stub_type = "Open")

\* 3. Pi Network: shunt, series, shunt
AfterPi(d, scale, z, y) ==
  Let(Shunt(z, y), LAMBDA z3 :
    Let(tline_input_z(z3, d.Z_m, FMul(Pi, scale)), LAMBDA z4 :
      Shunt(z4, y)))

rho(d, z) == CDiv(CSub(z, CR(d.Z0)), CAdd(z, CR(d.Z0)))

\* (1 + abs(rho)) / (1 - abs(rho))
vswr(abs_rho) == Let(abs_rho, LAMBDA a : FDiv(FAdd(One, a), FSub(One, a)))

\* the body of the loop of verify_metrics, for the frequency f and the load z_l_orig
VswrAt(d, f, z_l_orig) ==
  Let(FDiv(f, FAdd(d.f1, d.f2)), LAMBDA scale :
    Let(AfterAuxLine(d, scale, z_l_orig), LAMBDA z0 :
      Let(AfterTL1(d, scale, z0), LAMBDA z1 :
        Let2(AfterAuxStub(d, scale, z1), y_pi_stub(d, scale), LAMBDA z2, y :
          Let(AfterPi(d, scale, z2, y), LAMBDA z5 :
            vswr(CAbs(rho(d, z5))))))))

verify_metrics(d) ==
  [f1 |-> VswrAt(d, d.f1, d.Z_L1_orig), f2 |-> VswrAt(d, d.f2, d.Z_L2_orig)]

----------------------------------------------------------------------------
(* find_all_designs                                                        *)

\* the loads the search is run for
NumLoads == 4

Loads ==
  << \* the dashboard's default load
     [Z_L1 |-> Cx(Dec(224, 10), Dec(163, 10)), Z_L2 |-> Cx(Dec(262, 10), Dec(203, 10))],
     \* a load whose conjugate line degenerates (inside_sqrt = 0)
     [Z_L1 |-> Cx(FromInt(1), FromInt(2)), Z_L2 |-> Cx(FromInt(4), FromInt(-2))],
     \* the same impedance at both frequencies
     [Z_L1 |-> Cx(FromInt(30), FromInt(10)), Z_L2 |-> Cx(FromInt(30), FromInt(10))],
     \* resistances 2^-21 (about 4.8e-7) apart
     [Z_L1 |-> Cx(FromInt(1), FromInt(2)), Z_L2 |-> Cx(Fin(0, 8388612, -23), FromInt(3))],
     \* a short circuit at f1
     [Z_L1 |-> Cx(Zero(0), Zero(0)), Z_L2 |-> Cx(FromInt(10), FromInt(5))] >>

UsedLoads == 1..(IF NumLoads < Len(Loads) THEN NumLoads ELSE Len(Loads))

VARIABLES
  args,        \* the arguments of find_all_designs
  ti, ki,      \* positions of the two for loops in theta_aux_range and k_range
  pc,          \* the statement the loop body is at
  design,      \* the local variable design
  candidates,  \* the list candidates
  attempted    \* history: the grid points (theta_aux, k) the loop body was entered for

vars == <<args, ti, ki, pc, design, candidates, attempted>>

\* range(start, stop, step) as a sequence
Range(start, stop, step) ==
  [i \in 1..((stop - start + step - 1) \div step) |-> start + (i - 1) * step]

\* Variant of theta_aux_range that scans whatever scan_load_aux_line says.
theta_aux_range_always == Range(0, 180, 5)

theta_aux_range == IF args.scan_load_aux_line THEN Range(0, 180, 5) ELSE <<0>>
k_range == <<0, 1>>

theta_aux == theta_aux_range[ti]
k == k_range[ki]

\* the local variable design before the first iteration
Unbound == [unbound |-> TRUE]

Init ==
  /\ args \in { [f1 |-> FromInt(900000000), f2 |-> FromInt(1200000000),
                 Z_L1 |-> Loads[l].Z_L1, Z_L2 |-> Loads[l].Z_L2, Z0 |-> FromInt(50),
                 allow_aux_stub |-> a, scan_load_aux_line |-> sc] :
                l \in UsedLoads, a \in BOOLEAN, sc \in BOOLEAN }
  /\ ti = 1
  /\ ki = 1
  /\ pc = "for"
  /\ design = Unbound
  /\ candidates = <<>>
  /\ attempted = <<>>

\* "continue", or the end of the loop body: the next (theta_aux, k)
NextPoint ==
  /\ pc' = "for"
  /\ IF ki < Len(k_range) THEN ki' = ki + 1 /\ ti' = ti
                          ELSE ki' = 1 /\ ti' = ti + 1

\* DualBandMatchingDesign(f1, f2, Z_L1, Z_L2, Z0)
FreshDesign(a) == DesignInit(a.f1, a.f2, a.Z_L1, a.Z_L2, a.Z0)

\* the loop body is entered: design = DualBandMatchingDesign(...)
NewDesign ==
  /\ pc = "for"
  /\ ti <= Len(theta_aux_range)
  /\ design' = FreshDesign(args)
  /\ attempted' = Append(attempted, <<theta_aux, k>>)
  /\ pc' = IF theta_aux > 0 THEN "aux" ELSE "conj"
  /\ UNCHANGED <<args, ti, ki, candidates>>

\* if theta_aux > 0: design.apply_aux_line(50.0, theta_aux)
ApplyAuxLine ==
  /\ pc = "aux"
  /\ design' = apply_aux_line(design, AuxLineZ, theta_aux)
  /\ pc' = "conj"
  /\ UNCHANGED <<args, ti, ki, candidates, attempted>>

\* if not design.calculate_conjugate_transform(additional_pi=k): continue
ConjugateTransform ==
  /\ pc = "conj"
  /\ \E r \in {calculate_conjugate_transform(design, k)} :
       /\ design' = r.d
       /\ IF r.ok THEN pc' = "region" /\ UNCHANGED <<ti, ki>> ELSE NextPoint
  /\ UNCHANGED <<args, candidates, attempted>>

\* design.check_region_and_adjust(allow_aux_stub=allow_aux_stub)
CheckRegion ==
  /\ pc = "region"
  /\ design' = check_region_and_adjust(design, args.allow_aux_stub)
  /\ pc' = "match"
  /\ UNCHANGED <<args, ti, ki, candidates, attempted>>

\* Variant of MatchingNetwork that goes on to the synthesis after a failure.
MatchingNetworkNoSkip ==
  /\ pc = "match"
  /\ design' = calculate_matching_network(design).d
  /\ pc' = "synth"
  /\ UNCHANGED <<args, ti, ki, candidates, attempted>>

\* if not design.calculate_matching_network(): continue
MatchingNetwork ==
  /\ pc = "match"
  /\ \E r \in {calculate_matching_network(design)} :
       /\ design' = r.d
       /\ IF r.ok THEN pc' = "synth" /\ UNCHANGED <<ti, ki>> ELSE NextPoint
  /\ UNCHANGED <<args, candidates, attempted>>

\* design.synthesize_pi_network()
Synthesize ==
  /\ pc = "synth"
  /\ design' = synthesize_pi_network(design)
  /\ pc' = "emit"
  /\ UNCHANGED <<args, ti, ki, candidates, attempted>>

\* params with params['VSWR_f1'] and params['VSWR_f2'] added
WithMetrics(p, m) ==
  Let2(p, m, LAMBDA params, metrics :
    [f_design |-> params.f_design, region |-> params.region, Z_aux |-> params.Z_aux,
     theta_aux |-> params.theta_aux, Z1 |-> params.Z1, theta1 |-> params.theta1,
     Z_series |-> params.Z_series, Z_stub |-> params.Z_stub,
     stub_type |-> params.stub_type, aux_stub_type |-> params.aux_stub_type,
     aux_stub_Z |-> params.aux_stub_Z,
     VSWR_f1 |-> metrics.f1, VSWR_f2 |-> metrics.f2])

\* the dictionary appended to candidates
Candidate(d) == WithMetrics(get_design_parameters(d), verify_metrics(d))

\* params = ...; metrics = ...; candidates.append(params)
EmitCandidate ==
  /\ pc = "emit"
  /\ candidates' = Append(candidates, Candidate(design))
  /\ NextPoint
  /\ UNCHANGED <<args, design, attempted>>

\* return candidates
Return ==
  /\ pc = "for"
  /\ ti > Len(theta_aux_range)
  /\ pc' = "done"
  /\ UNCHANGED <<args, ti, ki, design, candidates, attempted>>

Next ==
  \/ NewDesign
  \/ ApplyAuxLine
  \/ ConjugateTransform
  \/ CheckRegion
  \/ MatchingNetwork
  \/ Synthesize
  \/ EmitCandidate
  \/ Return

Spec == Init /\ [][Next]_vars

\* the loop is sequential code: a step that can be taken is taken
FairSpec == Spec /\ WF_vars(Next)

----------------------------------------------------------------------------
(* Properties of find_all_designs                                          *)

\* a grid point's two fallible stages, run on a fresh design
PointConj(a, th, additional_pi) ==
  Let(IF th > 0 THEN apply_aux_line(FreshDesign(a), AuxLineZ, th) ELSE FreshDesign(a),
      LAMBDA d : calculate_conjugate_transform(d, additional_pi))
PointMatch(a, c) ==
  Let(check_region_and_adjust(c.d, a.allow_aux_stub),
      LAMBDA d : calculate_matching_network(d))
BothOk(a, th, additional_pi) ==
  \E c \in {PointConj(a, th, additional_pi)} : c.ok /\ PointMatch(a, c).ok

\* the remediation of region c found neither stub admittance positive
FellBack(d) ==
  /\ d.aux_stub_type # "None"
  /\ ~FGt(Y2_open(d), Zero(0))
  /\ ~FGt(Y2_short(d), Zero(0))

\* the two load resistances are equal within 1e-6
EqualR == FLt(FAbs(FSub(args.Z_L2.re, args.Z_L1.re)), Tol6)

\* the grid in the order of the two loops
Grid ==
  IF args.scan_load_aux_line THEN [i \in 1..72 |-> <<5 * ((i - 1) \div 2), (i - 1) % 2>>]
  ELSE << <<0, 0>>, <<0, 1>> >>

\* C1: every candidate's VSWR at f1, recomputed by verify_metrics, is 1.0
\* within 1e-3.
C1_VswrF1IsOne ==
  \A i \in 1..Len(candidates) :
    FLe(FAbs(FSub(candidates[i].VSWR_f1, One)), Dec(1, 1000))

\* C2: no candidate has region 'c', whatever allow_aux_stub is.
C2_NoRegionC == \A i \in 1..Len(candidates) : candidates[i].region # "c"

\* C3: a grid point whose region-c remediation found neither the open-stub
\* nor the short-stub admittance positive yields no candidate.
C3_NoFabricatedStub == pc = "emit" => ~FellBack(design)

\* C4: a grid point contributes exactly one candidate iff both
\* calculate_conjugate_transform and calculate_matching_network return True
\* for it.  Whatever the outcome, the candidates collected so far stay as they
\* are, the loop goes on to the next grid point in order, on a fresh design,
\* and it returns only after the last grid point.
C4_OnePerSolvablePoint ==
  [][ /\ Len(candidates') = Len(candidates)
           + (IF <<ti', ki'>> # <<ti, ki>> /\ BothOk(args, theta_aux, k) THEN 1 ELSE 0)
      /\ SubSeq(candidates', 1, Len(candidates)) = candidates
      /\ <<ti', ki'>> # <<ti, ki>> =>
           /\ pc' = "for"
           /\ <<ti', ki'>> = IF ki < 2 THEN <<ti, ki + 1>> ELSE <<ti + 1, 1>>
      /\ pc = "for" /\ pc' # "done" => design' = FreshDesign(args)
      /\ pc' = "done" => Len(attempted) = Len(Grid)
      /\ args' = args
    ]_vars

C4_SkippedThenEmitted ==
  /\ pc = "emit"
  /\ Len(candidates) + 1 < Len(attempted)
  /\ ~BothOk(args, attempted[1][1], attempted[1][2])

\* C5: every candidate has Z1, Z_series and Z_stub (1/Y_n) strictly positive,
\* and a strictly positive auxiliary-stub admittance when one is recorded.
C5_Realizable ==
  \A i \in 1..Len(candidates) :
    /\ FGt(candidates[i].Z1, Zero(0))
    /\ FGt(candidates[i].Z_series, Zero(0))
    /\ FGt(candidates[i].Z_stub, Zero(0))
    /\ candidates[i].aux_stub_type # "None" => FGt(candidates[i].aux_stub_Z, Zero(0))

\* C6 as stated: every candidate's reported theta1 lies in (0, 180] degrees,
\* for k = 0 and for k = 1.
C6_Theta1WithinPi ==
  \A i \in 1..Len(candidates) :
    FGt(candidates[i].theta1, Zero(0)) /\ FLe(candidates[i].theta1, FromInt(180))

\* C6 amended: the theta1 of a candidate of branch k lies in [k*pi, (k+1)*pi]:
\* in [0, pi] for k = 0 and in [pi, 2*pi] for k = 1.
C6_Theta1InBranch ==
  pc = "emit" =>
    /\ FLe(FMul(FromInt(k), Pi), design.theta1)
    /\ FLe(design.theta1, FMul(FromInt(k + 1), Pi))

C6_SecondBranchBeyondPi == pc = "emit" /\ k = 1 /\ FGt(design.theta1, Pi)

\* C7: find_all_designs terminates; the grid points it attempts are, in the
\* order of the loops, those of theta_aux in {0, 5, ..., 175} x k in {0, 1}
\* when scan_load_aux_line is True and (0, 0), (0, 1) when it is False, all 72
\* (or 2) of them once it returns; and there are never more candidates than
\* attempted grid points.
C7_GridAndTermination ==
  /\ <>(pc = "done")
  /\ [](Len(attempted) <= Len(Grid) /\ attempted = SubSeq(Grid, 1, Len(attempted)))
  /\ [](pc = "done" =>
          /\ attempted = Grid
          /\ Len(attempted) = IF args.scan_load_aux_line THEN 72 ELSE 2)
  /\ [](Len(candidates) <= Len(attempted))

C7_FullScanDone ==
  /\ pc = "done"
  /\ args.scan_load_aux_line
  /\ Len(attempted) = 72
  /\ candidates # <<>>

\* C8: when the load resistances are equal within 1e-6,
\* calculate_conjugate_transform fails at theta_aux = 0 for k = 0 and k = 1, no
\* candidate has theta_aux = 0, and the result is empty without the scan.
C8_EqualResistances ==
  EqualR =>
    /\ pc = "conj" /\ theta_aux = 0 =>
         \A kk \in {0, 1} : ~calculate_conjugate_transform(design, kk).ok
    /\ \A i \in 1..Len(candidates) : ~IsZero(candidates[i].theta_aux)
    /\ pc = "done" /\ ~args.scan_load_aux_line => candidates = <<>>

C8_EqualResistancesScanned == EqualR /\ pc = "done" /\ candidates # <<>>

\* C9: for one load and auxiliary line, calculate_conjugate_transform succeeds
\* for k = 0 and k = 1 alike, with the same Z1 and theta1(k=1) = theta1(k=0) + pi.
C9_BranchesDifferByPi ==
  pc = "conj" =>
    \E c0 \in {calculate_conjugate_transform(design, 0)} :
    \E c1 \in {calculate_conjugate_transform(design, 1)} :
      /\ c0.ok = c1.ok
      /\ c0.ok => /\ FEq(c0.d.Z1, c1.d.Z1)
                  /\ FEq(c1.d.theta1, FAdd(c0.d.theta1, Pi))

\* both branches succeed, and the arctangent was negative and corrected by pi
C9_CorrectedAngle ==
  /\ pc = "conj"
  /\ calculate_conjugate_transform(design, 1).ok
  /\ FLt(theta1_atan(calculate_conjugate_transform(design, 1).d.Z1,
                     design.Z_L1.re, design.Z_L1.im, design.Z_L2.re, design.Z_L2.im),
         Zero(0))

\* C10: an auxiliary stub is recorded only for a grid point classified as
\* region c with allow_aux_stub = True, and its region is then 'a'; hence none
\* is recorded with allow_aux_stub = False, and none with region 'b'.
C10_AuxStubOnlyForRegionC ==
  /\ pc \in {"match", "synth", "emit"} /\ design.aux_stub_type # "None" =>
       /\ Classify(design.Z_in1, design.Z0) = "c"
       /\ args.allow_aux_stub
       /\ design.region = "a"
  /\ \A i \in 1..Len(candidates) :
       /\ candidates[i].aux_stub_type # "None" =>
            args.allow_aux_stub /\ candidates[i].region = "a"
       /\ ~args.allow_aux_stub \/ candidates[i].region = "b" =>
            candidates[i].aux_stub_type = "None" /\ IsZero(candidates[i].aux_stub_Z)

C10_AuxStubRecorded ==
  \E i \in 1..Len(candidates) :
    /\ candidates[i].aux_stub_type # "None"
    /\ FGt(candidates[i].aux_stub_Z, Zero(0))
    /\ candidates[i].region = "a"

====
